---- MODULE Spec2Model ----
(***************************************************************************)
(* DoorbirdUdpSocket (src/src/index.ts): the UDP notification decoder of   *)
(* the Doorbird client.  One handler (the async arrow function onMessage)  *)
(* is started per received datagram; it runs synchronously up to its first *)
(* await that is not yet settled, and its continuation runs when the       *)
(* awaited promise settles.                                                *)
(*                                                                         *)
(* A continuation of an await on an already settled promise is a microtask *)
(* of the same event-loop turn: Node drains the microtask queue before the *)
(* next I/O callback, so such a handler finishes inside the action that    *)
(* started it.  The two awaits other work can overtake are                 *)
(*   - libsodium.ready, while the WebAssembly module is still loading      *)
(*     (strech, line 301), and                                             *)
(*   - client.initializeSession(), an HTTP round trip (line 395).          *)
(*                                                                         *)
(* Cryptography is abstracted: a datagram carries the key it was encrypted *)
(* with and its plaintext; decrypting with that key gives the plaintext    *)
(* and decrypting with any other key gives unrelated bytes.                *)
(*                                                                         *)
(* Spec follows a socket from its construction; SpecBurst follows a socket *)
(* with burst suppression whose listeners are registered; SpecSip follows  *)
(* one call of Doorbird.sipSettings; SpecInstances follows two sockets of  *)
(* one process, each built for its own device; SpecLoop follows the event  *)
(* loop's turns while datagrams wait in the socket's receive buffer.       *)
(***************************************************************************)
EXTENDS Integers, Sequences, FiniteSets, TLC

\* ------------------------------------------------------------------ bounds
MaxMsgs == 2

MaxListeners == 2

\* Datagrams delivered to a socket whose listeners are all registered.
MaxBurstMsgs == 3

\* Datagrams delivered to each of two sockets of one process.
MaxInstanceMsgs == 2

\* Datagrams that reach the receive buffer of a socket.
MaxLoopMsgs == 4

\* ------------------------------------------------------- program constants
Window == 1000

udpIdentifier == <<222, 173, 190>>

\* -------------------------------------------------------------- the inputs
\* Buffer.subarray(a, b): the indices are clamped to the buffer (0-based,
\* end exclusive).
SubArray(buf, a, b) ==
  LET lo == IF a > Len(buf) THEN Len(buf) ELSE a
      hi == IF b > Len(buf) THEN Len(buf) ELSE b
  IN IF hi <= lo THEN <<>> ELSE SubSeq(buf, lo + 1, hi)

\* String.substring(a, b), on strings kept as sequences of characters.
Substring(str, a, b) == SubArray(str, a, b)

\* Buffer.toString("base64") of a buffer of at most 3 bytes: the sequence of
\* 6-bit digits, 64 standing for the padding character '='.
ToBase64(buf) ==
  IF Len(buf) = 0 THEN <<>>
  ELSE IF Len(buf) = 1
    THEN <<buf[1] \div 4, (buf[1] % 4) * 16, 64, 64>>
  ELSE IF Len(buf) = 2
    THEN <<buf[1] \div 4, (buf[1] % 4) * 16 + (buf[2] \div 16),
           (buf[2] % 16) * 4, 64>>
  ELSE <<buf[1] \div 4, (buf[1] % 4) * 16 + (buf[2] \div 16),
         (buf[2] % 16) * 4 + (buf[3] \div 64), buf[3] % 64>>

\* The 4 bytes read with the least significant byte first.
ReadInt32LE(buf) ==
  LET high == IF buf[4] >= 128 THEN buf[4] - 256 ELSE buf[4]
  IN high * 16777216 + (buf[3] * 256 + buf[2]) * 256 + buf[1]

\* Buffer.readInt32BE() of a 4-byte buffer.
ReadInt32BE(buf) ==
  LET high == IF buf[1] >= 128 THEN buf[1] - 256 ELSE buf[1]
  IN high * 16777216 + (buf[2] * 256 + buf[3]) * 256 + buf[4]

Whitespace == {" ", "\t", "\n"}

RECURSIVE TrimStart(_)
TrimStart(str) ==
  IF str # <<>> /\ str[1] \in Whitespace THEN TrimStart(Tail(str)) ELSE str

RECURSIVE TrimEnd(_)
TrimEnd(str) ==
  IF str # <<>> /\ str[Len(str)] \in Whitespace
  THEN TrimEnd(SubSeq(str, 1, Len(str) - 1)) ELSE str

\* String.prototype.trim()
Trim(str) == TrimEnd(TrimStart(str))

\* The constructor's arguments (lines 288-289).
Username == <<"f", "o", "o", "b", "a", "r", "0", "1">>

Password == <<"s", "e", "c", "r", "e", "t", "!">>

\* Decrypted payloads: 6 characters of intercom id, 8 of event, 4 bytes of
\* seconds since the epoch (1609459200 = 2021-01-01T00:00:00Z).
Epoch2021 == <<95, 238, 102, 0>>

OwnId == <<"f", "o", "o", "b", "a", "r">>

ForeignId == <<"f", "o", "o", "b", "a", "z">>

TagMotion == <<"m", "o", "t", "i", "o", "n", " ", " ">>

TagMotionLead == <<" ", "m", "o", "t", "i", "o", "n", " ">>

TagMotionUpper == <<"M", "o", "t", "i", "o", "n", " ", " ">>

TagDoorbell == <<"d", "o", "o", "r", "b", "e", "l", "l">>

\* The bytes 80 00 00 01: as a signed big-endian number, -2147483647.
Before1970 == <<128, 0, 0, 1>>

PlainAt(id, tag, timestamp) == id \o tag \o timestamp

Plain(id, tag) == id \o tag \o Epoch2021

\* What a wrong key leaves of a ciphertext.
Garbage == <<"#", "#", "#", "#", "#", "#", "#", "#", "#", "#", "#", "#",
             "#", "#", 1, 2, 3, 4>>

\* The key crypto_pwhash derives (lines 304-311): a function of the first 5
\* characters of the password and of the salt and cost fields of the packet.
Strech(pw, salt) == [pw |-> Substring(pw, 0, 5), salt |-> salt]

\* The keys a session response can carry (NOTIFICATION_ENCRYPTION_KEY).
SessionKeys == {"K1", "K2"}

NoKey == "null"

\* A datagram: its first bytes (identifier and version), the salt of a v1
\* packet, and the sender's side of the encryption.
Datagram(head, salt, key, plain) ==
  [head |-> head, salt |-> salt, key |-> key, plain |-> plain]

V1(plain) == Datagram(<<222, 173, 190, 1>>, "s1", Strech(Password, "s1"), plain)

V2(plain) == Datagram(<<222, 173, 190, 2>>, "", "K1", plain)

\* A version 1 datagram cut off after its fifth byte: the cost fields are
\* incomplete and the salt, the nonce and the ciphertext are missing.
V1CutShort ==
  Datagram(<<222, 173, 190, 1>>, "", Strech(Password, ""),
           Plain(OwnId, TagMotion))

\* A version 2 datagram of 22 bytes: the ciphertext is cut off after the
\* tenth byte, so the payload ends inside the event tag.
V2CutShort == V2(SubArray(Plain(OwnId, TagDoorbell), 0, 10))

Datagrams ==
  { Datagram(<<222, 173>>, "", "K1", Plain(OwnId, TagDoorbell)),
    Datagram(<<222, 173, 191, 1>>, "s1", Strech(Password, "s1"),
             Plain(OwnId, TagMotion)),
    Datagram(<<222, 173, 190, 3>>, "", "K1", Plain(OwnId, TagDoorbell)),
    V1(Plain(OwnId, TagMotionLead)),
    V1(Plain(ForeignId, TagMotion)),
    V2(Plain(OwnId, TagDoorbell)),
    V2(PlainAt(OwnId, TagMotionUpper, Before1970)),
    V1CutShort,
    V2CutShort }

\* The readings of the wall clock, new Date().valueOf() (line 325), in
\* milliseconds since the epoch; the clock does not run backwards.
ClockReadings == {5000, 5100, 6100}

\* The callbacks a user registers; those of Throwing throw when called.
Listeners == {"l1", "l2"}

Throwing == {"l2"}

\* What an initializeSession call can come back with (lines 451-457): a
\* response that carries a key, a rejection (the request failed), or a
\* response without BHA.NOTIFICATION_ENCRYPTION_KEY.
SessionFailures == {"error", "nokey"}

SessionOutcomes == SessionKeys \cup SessionFailures

\* The length in bytes of Buffer.from(key, "utf-8") (line 395).  K1 stands
\* for a key like that of decrypt_example_v2.ts, 59 characters; K2 for a key
\* of 32 characters.
KeyLength(key) == IF key = "K1" THEN 59 ELSE IF key = "K2" THEN 32 ELSE 0

\* The suppressBurst argument of the constructor (line 286) and of
\* startUdpSocket (line 810): given or left out.
SuppressBurstArgs == {"undefined", "true", "false"}

\* suppressBurst = false in the parameter lists (lines 286 and 810): the
\* value the field takes at line 291.
SuppressBurstParam(arg) == IF arg = "undefined" THEN FALSE ELSE arg = "true"

VARIABLES
  suppressBurst,             \* line 265
  lastEventTimestamp,        \* line 267
  ringListeners,             \* line 268
  motionListeners,           \* line 269
  notificationEncryptionKey, \* line 270
  running,                   \* the dgram socket of line 266 is open
  sodiumReady,               \* libsodium.ready has resolved
  now,                       \* the last reading of the wall clock
  received,                  \* calls of onMessage so far
  pending,                   \* the handlers suspended at an await, oldest first
  done,                      \* the handlers the last step finished, in order
  closeResult,               \* how close() ended, when the last step was close()
  sessionCalls,              \* calls of client.initializeSession so far
  firstSession,              \* how the first of them came back
  overlapped,                \* a datagram arrived while a handler was suspended
  passedAt,                  \* clock reading of the last datagram past line 328
  lastDispatched,            \* the latest datagram whose listeners were called
  constructed,               \* how new DoorbirdUdpSocket(...) ended
  bindState,                 \* the bind of line 296: none, binding, bound, failed
  alive,                     \* the Node.js process is running
  sip,                       \* the sipSettings call in progress
  foreignAt,                 \* clock reading of the last datagram line 346 turned away
  budget,                    \* the number of datagrams the network delivers
  instances,                 \* two DoorbirdUdpSocket objects, one per device
  loop                       \* the event loop of the process and the receive buffer

vars == <<suppressBurst, lastEventTimestamp, ringListeners, motionListeners,
          notificationEncryptionKey, running, sodiumReady, now, received,
          pending, done, closeResult, sessionCalls, firstSession, overlapped,
          passedAt, lastDispatched, constructed, bindState, alive, sip,
          foreignAt, budget, instances, loop>>

\* The state of the DoorbirdUdpSocket and of its process.
socketVars ==
  <<suppressBurst, lastEventTimestamp, ringListeners, motionListeners,
    notificationEncryptionKey, running, sodiumReady, now, received, pending,
    done, closeResult, sessionCalls, firstSession, overlapped, passedAt,
    lastDispatched, constructed, bindState, alive, foreignAt, budget>>

\* ------------------------------------------------------------- onMessage
\* The identifier check, comparing the first two bytes only.
IdentOkTwoBytes(msg) ==
  ToBase64(SubArray(udpIdentifier, 0, 2)) = ToBase64(SubArray(msg.head, 0, 2))

\* Line 320: the identifier check.
IdentOk(msg) == ToBase64(udpIdentifier) = ToBase64(SubArray(msg.head, 0, 3))

\* The burst check made whatever the flag says.
BurstCheckedAlways(flag) == TRUE

\* Line 324: the burst check is made when the flag is set.
BurstChecked(flag) == flag

\* The burst check with <= for <.
BurstDropInclusive(eventTimestamp, last) == eventTimestamp - last <= Window

\* The burst check against a timestamp read before the handlers in flight
\* wrote theirs.
BurstDropStaleRead(eventTimestamp, last) ==
  eventTimestamp - (IF pending # <<>> THEN 0 ELSE last) < Window

\* Lines 325-326: the datagram is inside the burst window.
BurstDrop(eventTimestamp, last) == eventTimestamp - last < Window

\* A suppressed datagram moving the burst timestamp.
TimestampMovedOnDrop(eventTimestamp, last) == eventTimestamp

\* Line 327: the return of a suppressed datagram comes before the assignment
\* of line 328.
TimestampAfterDrop(eventTimestamp, last) == last

\* The burst timestamp left alone by a datagram that passes the check.
TimestampKeptOnPass(eventTimestamp, last) == last

\* Line 328.
TimestampAfterPass(eventTimestamp, last) == eventTimestamp

\* Lines 318, 333-339: the version byte; 0 when the datagram has none.
Version(msg) ==
  LET version == SubArray(msg.head, 3, 4)
  IN IF version = <<>> THEN 0 ELSE version[1]

\* chacha.AeadLegacy(key, nonce, true).update(ciphertext), lines 380-381 and
\* 388-389: as many bytes as the ciphertext has.
Decrypt(key, msg) ==
  IF key = msg.key THEN msg.plain ELSE SubArray(Garbage, 0, Len(msg.plain))

\* The device check on 5 characters instead of 6.
IdentityOkFive(username, decrypted) ==
  Substring(username, 0, 5) = SubArray(decrypted, 0, 5)

\* Lines 341-347: the device check.
IdentityOk(username, decrypted) ==
  Substring(username, 0, 6) = SubArray(decrypted, 0, 6)

\* Line 350: Buffer.readInt32BE throws a RangeError on fewer than 4 bytes.
CanReadInt32BE(buf) == Len(buf) >= 4

\* The kind of the event, compared without trimming.
IsMotionUntrimmed(decrypted) ==
  SubArray(decrypted, 6, 14) = <<"m", "o", "t", "i", "o", "n">>

\* Lines 352-354: the kind of the event.
IsMotion(decrypted) ==
  Trim(SubArray(decrypted, 6, 14)) = <<"m", "o", "t", "i", "o", "n">>

\* Array.forEach stops at the first callback that throws: the index of that
\* callback, 0 when none throws.
RECURSIVE FirstThrow(_, _)
FirstThrow(ls, i) ==
  IF i > Len(ls) THEN 0
  ELSE IF ls[i] \in Throwing THEN i ELSE FirstThrow(ls, i + 1)

\* A Date is the pair of the whole seconds since 1970-01-01T00:00:00Z and the
\* milliseconds within the second: its time value is sec * 1000 + ms.
NewDate(value) == [sec |-> value \div 1000, ms |-> value % 1000]

\* Date.prototype.setUTCSeconds: the seconds field of the UTC time is
\* replaced; a value outside 0..59 carries into the other fields.
SetUTCSeconds(date, seconds) ==
  [sec |-> (date.sec - (date.sec % 60)) + seconds, ms |-> date.ms]

\* Lines 349-350.
EventDate(decrypted) ==
  SetUTCSeconds(NewDate(0), ReadInt32BE(SubArray(decrypted, 14, 18)))

\* The event tag handed on as it is in the payload.
EventNamePadded(decrypted) == SubArray(decrypted, 6, 14)

\* Line 352.
EventName(decrypted) == Trim(SubArray(decrypted, 6, 14))

\* Lines 356-359 and 363-367: the object a listener is called with.
EventFor(kind, decrypted) ==
  IF kind = "motion"
    THEN [intercomId |-> SubArray(decrypted, 0, 6),
          timestamp |-> EventDate(decrypted)]
    ELSE [intercomId |-> SubArray(decrypted, 0, 6),
          event |-> EventName(decrypted),
          timestamp |-> EventDate(decrypted)]

\* Lines 355 and 362: the calls forEach makes, in order.
Called(kind, ls, arg) ==
  LET n == FirstThrow(ls, 1)
  IN [i \in 1..(IF n = 0 THEN Len(ls) ELSE n) |->
        [kind |-> kind, listener |-> ls[i], arg |-> arg]]

\* A handler: the datagram, the clock reading of line 325 (0 when the clock
\* was not read), where it stands and, once it has finished, how it ended;
\* call is the number of the initializeSession call it made (0 for none),
\* fetched what that call came back with and cached the key cache at that
\* moment; after is the handler whose listeners were called last before this
\* one's; pre, since and before record the state onMessage was called in.
Handler(id, msg, t, pc) ==
  [id |-> id, msg |-> msg, t |-> t, pc |-> pc, err |-> "", kind |-> "",
   decrypted |-> <<>>, calls |-> <<>>,
   call |-> 0, fetched |-> "", cached |-> NoKey, after |-> 0,
   pre |-> [last |-> lastEventTimestamp, key |-> notificationEncryptionKey,
            sessions |-> sessionCalls, now |-> now],
   since |-> passedAt, before |-> lastDispatched]

\* Lines 341-369, the part of onMessage after the decryption.
Finish(h, decrypted) ==
  IF ~IdentityOk(Username, decrypted)
  THEN [h EXCEPT !.pc = "returned", !.decrypted = decrypted]
  ELSE IF ~CanReadInt32BE(SubArray(decrypted, 14, 18))
  THEN [h EXCEPT !.pc = "rejected", !.err = "timestamp",
                 !.decrypted = decrypted]
  ELSE
    LET kind == IF IsMotion(decrypted) THEN "motion" ELSE "ring"
        ls == IF kind = "motion" THEN motionListeners ELSE ringListeners
        threw == FirstThrow(ls, 1) # 0
    IN [h EXCEPT !.pc = IF threw THEN "rejected" ELSE "dispatched",
                 !.err = IF threw THEN "listener" ELSE "",
                 !.kind = kind,
                 !.decrypted = decrypted,
                 !.after = lastDispatched,
                 !.calls = Called(kind, ls, EventFor(kind, decrypted))]

\* Lines 304-311: crypto_pwhash is called with opslimit.readInt32BE() and
\* memlimit.readInt32BE() and a 16-byte salt; a datagram that ends before
\* them makes the call throw.
CanStrech(msg) == msg.salt # ""

\* Line 379 and lines 300-314 once libsodium is ready, then lines 380-381.
DecryptV1(msg) == Decrypt(Strech(Password, msg.salt), msg)

\* Lines 372-382 and 341-369: a version 1 handler once libsodium is ready.
FinishV1(h) ==
  IF CanStrech(h.msg) THEN Finish(h, DecryptV1(h.msg))
  ELSE [h EXCEPT !.pc = "rejected", !.err = "derive"]

\* A session call made by datagrams of every version.
NeedsFetchAnyVersion(msg, cache) == cache = NoKey

\* Lines 335-336 and 393: decryptV2 is entered for version 2 only, and the
\* session call is made when the cache holds no key.
NeedsFetch(msg, cache) == Version(msg) = 2 /\ cache = NoKey

\* The session call's key used but not stored.
FetchedKeyNotStored(cache, fetched) == cache

\* A key stored only when it has 32 bytes.
FetchedKeyOf32Bytes(cache, fetched) ==
  IF KeyLength(fetched) = 32 THEN fetched ELSE cache

\* Line 394: the value the cache takes when the session call has returned.
FetchedKey(cache, fetched) == fetched

\* A failed session call leaving a placeholder in the cache.
KeyPlaceholderAfterFailure(cache) == "K2"

\* Lines 393-398: the assignment of line 394 is not reached when the session
\* call rejects or Buffer.from throws on a missing key.
KeyAfterFailure(cache) == cache

\* The id of the last handler of a sequence of finished handlers whose
\* listeners were called, or old when there is none.
RECURSIVE LastCalled(_, _)
LastCalled(hs, old) ==
  IF hs = <<>> THEN old
  ELSE LastCalled(Tail(hs), IF hs[1].calls # <<>> THEN hs[1].id ELSE old)

\* The clock reading of the last handler of a sequence of finished handlers
\* that returned at the device check (line 346), or old when there is none.
RECURSIVE LastReturned(_, _)
LastReturned(hs, old) ==
  IF hs = <<>> THEN old
  ELSE LastReturned(Tail(hs), IF hs[1].pc = "returned" THEN hs[1].t ELSE old)

\* onMessage has no try/catch and the "message" event has no other listener
\* (line 297), so the promise of a handler that throws is rejected with
\* nobody to handle it.
Rejected(hs) == \E i \in DOMAIN hs : hs[i].pc = "rejected"

\* Node.js (>= 16, package.json) ends the process on an unhandled rejection
\* or an uncaught exception unless the application has installed a
\* process-level handler for it.
Survives(failed) == IF failed THEN BOOLEAN ELSE {TRUE}

\* ------------------------------------------------------------ sipSettings
\* The values a JavaScript caller passes: numbers, strings (as sequences of
\* characters) and undefined for an argument left out.
Num(n) == [type |-> "number", num |-> n]

Str(chars) == [type |-> "string", chars |-> chars]

Undefined == [type |-> "undefined"]

\* if (value), lines 742-771: 0, "" and undefined are falsy.
Truthy(value) ==
  IF value.type = "number" THEN value.num # 0
  ELSE IF value.type = "string" THEN value.chars # <<>>
  ELSE FALSE

DigitChars == <<"0", "1", "2", "3", "4", "5", "6", "7", "8", "9">>

\* The decimal digits of a natural number.
RECURSIVE Digits(_)
Digits(n) ==
  IF n < 10 THEN <<DigitChars[n + 1]>>
  ELSE Digits(n \div 10) \o <<DigitChars[(n % 10) + 1]>>

\* `${value}` in a template literal.
ToStr(value) ==
  IF value.type = "number" THEN Digits(value.num)
  ELSE IF value.type = "string" THEN value.chars
  ELSE <<"u", "n", "d", "e", "f", "i", "n", "e", "d">>

\* A parameter appended for every argument that is not undefined.
SipParamIfDefined(url, name, value) ==
  IF value.type # "undefined" THEN url \o <<name>> \o ToStr(value) ELSE url

\* if (value) { url += `&name=${value}`; }, lines 742-771.  A URL is the
\* sequence of its pieces: the literal texts and the characters of the values.
SipParam(url, name, value) ==
  IF Truthy(value) THEN url \o <<name>> \o ToStr(value) ELSE url

\* Lines 741-771.
SipSettingsUrl(a) ==
  LET u0 == <<"/bha-api/sip.cgi?action=settings">>
      u1 == SipParam(u0, "&enable=", a.enable)
      u2 == SipParam(u1, "&mic_volume=", a.mic_volume)
      u3 == SipParam(u2, "&spk_volume=", a.spk_volume)
      u4 == SipParam(u3, "&dtmf=", a.dtmf)
      u5 == SipParam(u4, "&relay1_passcode=", a.relay1_passcode)
      u6 == SipParam(u5, "&incoming_call_enable=", a.incoming_call_enable)
      u7 == SipParam(u6, "&incoming_call_user=", a.incoming_call_user)
      u8 == SipParam(u7, "&anc=", a.anc)
      u9 == SipParam(u8, "&ring_time_limit=", a.ringTimeLimit)
  IN SipParam(u9, "&call_time_limit=", a.callTimeLimit)

\* Lines 923-929: uri(path), for the scheme and host the client was made with.
Uri(path) == <<"http://", "doorbird.local">> \o path

\* The arguments sipSettings is called with.
SipArgs ==
  [enable : {Num(0), Num(1)},
   mic_volume : {Num(0), Num(70)},
   spk_volume : {Num(0), Num(60)},
   dtmf : {Num(0), Num(1)},
   relay1_passcode : {Num(0), Num(98127)},
   incoming_call_enable : {Num(0), Num(1)},
   incoming_call_user : {Str(<<>>), Str(<<"u", "s", "e", "r", "0">>)},
   anc : {Num(0), Num(1)},
   ringTimeLimit : {Undefined, Num(30)},
   callTimeLimit : {Undefined, Num(0), Num(120)}]

\* No sipSettings call has been made.
SipIdle == [pc |-> "idle", args |-> <<>>, url |-> <<>>, requests |-> <<>>]

\* Lines 729-772: sipSettings is called; the URL is built before the first
\* await, that of getHttp() (line 772).
SipSettings(a) ==
  /\ sip.pc = "idle"
  /\ sip' = [pc |-> "getHttp", args |-> a, url |-> SipSettingsUrl(a),
             requests |-> <<>>]
  /\ UNCHANGED <<socketVars, instances, loop>>

\* Line 773: getHttp() has resolved and the GET request is sent.
SipGet ==
  /\ sip.pc = "getHttp"
  /\ sip' = [sip EXCEPT !.pc = "get",
                        !.requests = Append(@, [method |-> "GET",
                                                url |-> Uri(sip.url)])]
  /\ UNCHANGED <<socketVars, instances, loop>>

\* Line 774: the response has arrived and sipSettings returns its data.
SipReturn ==
  /\ sip.pc = "get"
  /\ sip' = [sip EXCEPT !.pc = "returned"]
  /\ UNCHANGED <<socketVars, instances, loop>>

\* ------------------------------------------- two sockets of one process
\* Two devices, each with a Doorbird client and a DoorbirdUdpSocket built
\* with that client (constructor, line 290).
Devices == {"A", "B"}

\* The NOTIFICATION_ENCRYPTION_KEY in the session response of a device, which
\* is the key the device encrypts its version 2 datagrams with.
ClientKey(device) == IF device = "A" THEN "K1" ELSE "K2"

\* A ring datagram of version 2 sent by a device.
DeviceDatagram(device) ==
  Datagram(<<222, 173, 190, 2>>, "", ClientKey(device),
           Plain(OwnId, TagDoorbell))

\* One key cache for all the sockets of the process.
CacheShared(socket) == "A"

\* Line 270: notificationEncryptionKey is a field of the instance, read and
\* written through this (lines 393-398).
CacheOf(socket) == socket

\* A socket that has received nothing: the key cache of line 270, the
\* devices whose datagrams wait at the await of line 395, the datagrams
\* received, the session calls made on the socket's client, and the key,
\* the result and the sender of the last decryption (lines 388-389).
NoInstanceWork ==
  [notificationEncryptionKey |-> NoKey, awaiting |-> <<>>, received |-> 0,
   sessions |-> 0, decryptedWith |-> "none", decrypted |-> <<>>,
   from |-> "none"]

\* Lines 335-336, 384-390 and 393-395: a version 2 datagram of a device
\* reaches a socket; the handler decrypts it with the cached key or calls
\* initializeSession on the socket's client and waits.
InstanceOnMessage(socket, device) ==
  /\ alive
  /\ instances[socket].received < MaxInstanceMsgs
  /\ LET cache == instances[CacheOf(socket)].notificationEncryptionKey
         msg == DeviceDatagram(device)
     IN IF NeedsFetch(msg, cache)
          THEN instances' =
                 [instances EXCEPT ![socket].received = @ + 1,
                                   ![socket].sessions = @ + 1,
                                   ![socket].awaiting = Append(@, device)]
          ELSE instances' =
                 [instances EXCEPT ![socket].received = @ + 1,
                                   ![socket].decryptedWith = cache,
                                   ![socket].decrypted = Decrypt(cache, msg),
                                   ![socket].from = device]
  /\ UNCHANGED <<socketVars, sip, loop>>

\* Lines 394-398 and 388-389: a session call of a socket's client comes back
\* with the key of the client's device, or fails; the key is stored and the
\* waiting datagram is decrypted with it.
InstanceSessionReturn(socket, i, outcome) ==
  /\ alive
  /\ i \in DOMAIN instances[socket].awaiting
  /\ outcome \in SessionFailures \/ outcome = ClientKey(socket)
  /\ LET cache == instances[CacheOf(socket)].notificationEncryptionKey
         device == instances[socket].awaiting[i]
         rest == [j \in 1..(Len(instances[socket].awaiting) - 1) |->
                    IF j < i THEN instances[socket].awaiting[j]
                    ELSE instances[socket].awaiting[j + 1]]
     IN IF outcome \in SessionFailures
          THEN /\ instances' =
                    [instances EXCEPT
                       ![CacheOf(socket)].notificationEncryptionKey =
                         KeyAfterFailure(cache),
                       ![socket].awaiting = rest]
               /\ alive' \in Survives(TRUE)
          ELSE LET key == FetchedKey(cache, outcome)
               IN /\ instances' =
                       [instances EXCEPT
                          ![CacheOf(socket)].notificationEncryptionKey = key,
                          ![socket].awaiting = rest,
                          ![socket].decryptedWith = key,
                          ![socket].decrypted =
                            Decrypt(key, DeviceDatagram(device)),
                          ![socket].from = device]
                  /\ UNCHANGED alive
  /\ UNCHANGED <<suppressBurst, lastEventTimestamp, ringListeners,
                 motionListeners, notificationEncryptionKey, running,
                 sodiumReady, now, received, pending, done, closeResult,
                 sessionCalls, firstSession, overlapped, passedAt,
                 lastDispatched, constructed, bindState, sip, foreignAt,
                 budget, loop>>

\* ------------------------------------------------------- the event loop
\* The datagrams that reach the receive buffer: one of version 1 and one of
\* version 2.
LoopDatagrams == {V1(Plain(OwnId, TagMotion)), V2(Plain(OwnId, TagDoorbell))}

\* Nothing has arrived: libsodium is loading, the receive buffer is empty and
\* no JavaScript is running.  stack is what the one JavaScript thread runs,
\* waiting the handlers suspended at await libsodium.ready (line 301),
\* deriving the handlers whose crypto_pwhash call (lines 304-311) is running
\* or due in the same drain of the microtask queue.
LoopIdle ==
  [ready |-> FALSE, queue |-> <<>>, arrived |-> 0, stack |-> "idle",
   waiting |-> 0, deriving |-> 0, begun |-> 0, derived |-> 0]

\* The operating system puts a datagram into the receive buffer of the
\* bound socket (line 296), whatever the JavaScript thread is doing.
LoopArrive(msg) ==
  /\ loop.arrived < MaxLoopMsgs
  /\ loop' = [loop EXCEPT !.arrived = @ + 1, !.queue = Append(@, msg)]
  /\ UNCHANGED <<socketVars, sip, instances>>

\* Line 297 and lines 316-339: with no JavaScript running, the event loop
\* takes the oldest datagram of the buffer and calls onMessage.  A version 1
\* handler reaches await libsodium.ready (line 301); when libsodium is loaded
\* its continuation is a microtask of the same turn and calls crypto_pwhash,
\* which computes Argon2i on the JavaScript thread and returns the key
\* (lines 303-312: its result is passed to Buffer.from).
LoopOnMessage ==
  /\ loop.stack = "idle"
  /\ loop.queue # <<>>
  /\ LET msg == Head(loop.queue)
         derive == Version(msg) = 1 /\ CanStrech(msg)
     IN loop' = [loop EXCEPT
                   !.queue = Tail(@),
                   !.begun = @ + 1,
                   !.stack = IF derive /\ loop.ready THEN "pwhash" ELSE @,
                   !.deriving = IF derive /\ loop.ready THEN 1 ELSE @,
                   !.waiting = IF derive /\ ~loop.ready THEN @ + 1 ELSE @]
  /\ UNCHANGED <<socketVars, sip, instances>>

\* libsodium.ready resolves: the handlers suspended at line 301 continue one
\* after the other as microtasks, each with its crypto_pwhash call.
LoopSodiumReady ==
  /\ ~loop.ready
  /\ loop.stack = "idle"
  /\ loop' = [loop EXCEPT
                !.ready = TRUE,
                !.stack = IF loop.waiting > 0 THEN "pwhash" ELSE @,
                !.deriving = loop.waiting,
                !.waiting = 0]
  /\ UNCHANGED <<socketVars, sip, instances>>

\* Lines 303-313: crypto_pwhash returns the key; the thread goes on with the
\* next microtask or, when there is none, back to the event loop.
LoopPwhashReturn ==
  /\ loop.stack = "pwhash"
  /\ loop' = [loop EXCEPT
                !.derived = @ + 1,
                !.deriving = @ - 1,
                !.stack = IF loop.deriving = 1 THEN "idle" ELSE @]
  /\ UNCHANGED <<socketVars, sip, instances>>

\* ------------------------------------------------------ the socket's steps
\* Before new DoorbirdUdpSocket(...): the fields hold their initializers
\* (lines 265-270).
Init ==
  /\ suppressBurst = FALSE
  /\ lastEventTimestamp = 0
  /\ ringListeners = <<>>
  /\ motionListeners = <<>>
  /\ notificationEncryptionKey = NoKey
  /\ running = FALSE
  /\ sodiumReady = FALSE
  /\ now = 0
  /\ received = 0
  /\ pending = <<>>
  /\ done = <<>>
  /\ closeResult = ""
  /\ sessionCalls = 0
  /\ firstSession = "none"
  /\ overlapped = FALSE
  /\ passedAt = 0
  /\ lastDispatched = 0
  /\ constructed = "no"
  /\ bindState = "none"
  /\ alive = TRUE
  /\ sip = SipIdle
  /\ instances = [socket \in Devices |-> NoInstanceWork]
  /\ loop = LoopIdle
  /\ foreignAt = 0
  /\ budget = MaxMsgs

\* Lines 272-298 (and 810-818): the constructor creates the dgram socket,
\* starts the bind and returns; it has no path that throws.  bind() reports
\* its outcome later, through the socket's events.
Construct(arg) ==
  /\ alive
  /\ constructed = "no"
  /\ suppressBurst' = SuppressBurstParam(arg)
  /\ running' = TRUE
  /\ bindState' = "binding"
  /\ constructed' = "returned"
  /\ done' = <<>>
  /\ closeResult' = ""
  /\ UNCHANGED <<lastEventTimestamp, ringListeners, motionListeners,
                 notificationEncryptionKey, sodiumReady, now, received,
                 pending, sessionCalls, firstSession, overlapped, passedAt,
                 lastDispatched, alive, sip, instances, loop,
                 foreignAt, budget>>

\* The bind of line 296 succeeds: the socket is listening.
BindOk ==
  /\ alive
  /\ running
  /\ bindState = "binding"
  /\ bindState' = "bound"
  /\ done' = <<>>
  /\ closeResult' = ""
  /\ UNCHANGED <<suppressBurst, lastEventTimestamp, ringListeners,
                 motionListeners, notificationEncryptionKey, running,
                 sodiumReady, now, received, pending, sessionCalls,
                 firstSession, overlapped, passedAt, lastDispatched,
                 constructed, alive, sip, instances, loop,
                 foreignAt, budget>>

\* The bind of line 296 fails (the port is in use, say): dgram emits "error"
\* on the socket, which has no "error" listener (lines 292-297), so the
\* event is thrown as an uncaught exception.
BindFail ==
  /\ alive
  /\ running
  /\ bindState = "binding"
  /\ bindState' = "failed"
  /\ alive' \in Survives(TRUE)
  /\ done' = <<>>
  /\ closeResult' = ""
  /\ UNCHANGED <<suppressBurst, lastEventTimestamp, ringListeners,
                 motionListeners, notificationEncryptionKey, running,
                 sodiumReady, now, received, pending, sessionCalls,
                 firstSession, overlapped, passedAt, lastDispatched,
                 constructed, sip, instances, loop,
                 foreignAt, budget>>

\* A datagram whose identifier is wrong: lines 317-322.
DeliverForeign(msg) ==
  /\ alive
  /\ running
  /\ bindState = "bound"
  /\ received < budget
  /\ ~IdentOk(msg)
  /\ received' = received + 1
  /\ done' = <<Handler(received + 1, msg, 0, "dropped")>>
  /\ overlapped' = (overlapped \/ pending # <<>>)
  /\ closeResult' = ""
  /\ UNCHANGED <<suppressBurst, lastEventTimestamp, ringListeners,
                 motionListeners, notificationEncryptionKey, running,
                 sodiumReady, now, pending, sessionCalls, firstSession,
                 passedAt, lastDispatched, constructed, bindState, alive,
                 sip, instances, loop,
                 foreignAt, budget>>

\* A datagram that arrives inside the burst window: lines 324-328.
DeliverSuppressed(msg, t) ==
  /\ alive
  /\ running
  /\ bindState = "bound"
  /\ received < budget
  /\ IdentOk(msg)
  /\ BurstChecked(suppressBurst)
  /\ t >= now
  /\ BurstDrop(t, lastEventTimestamp)
  /\ now' = t
  /\ lastEventTimestamp' = TimestampAfterDrop(t, lastEventTimestamp)
  /\ received' = received + 1
  /\ done' = <<Handler(received + 1, msg, t, "suppressed")>>
  /\ overlapped' = (overlapped \/ pending # <<>>)
  /\ closeResult' = ""
  /\ UNCHANGED <<suppressBurst, ringListeners, motionListeners,
                 notificationEncryptionKey, running, sodiumReady, pending,
                 sessionCalls, firstSession, passedAt, lastDispatched,
                 constructed, bindState, alive, sip, instances, loop,
                 foreignAt, budget>>

\* A datagram that passes the identifier and the burst check: lines 316-339
\* and, when nothing it awaits is outstanding, lines 341-369 as well.
DeliverAccepted(msg, t) ==
  /\ alive
  /\ running
  /\ bindState = "bound"
  /\ received < budget
  /\ IdentOk(msg)
  /\ IF BurstChecked(suppressBurst)
       THEN /\ t >= now
            /\ t # 0
            /\ ~BurstDrop(t, lastEventTimestamp)
            /\ now' = t
            /\ lastEventTimestamp' = TimestampAfterPass(t, lastEventTimestamp)
            /\ passedAt' = t
       ELSE /\ t = 0
            /\ UNCHANGED <<now, lastEventTimestamp, passedAt>>
  /\ received' = received + 1
  /\ overlapped' = (overlapped \/ pending # <<>>)
  /\ closeResult' = ""
  /\ LET fetch == NeedsFetch(msg, notificationEncryptionKey)
         wait == Version(msg) = 1 /\ ~sodiumReady
         h == [Handler(received + 1, msg, t, "start") EXCEPT
                 !.call = IF fetch THEN sessionCalls + 1 ELSE 0]
         end ==
           IF Version(msg) = 1
             THEN FinishV1(h)
           ELSE IF Version(msg) = 2
             THEN Finish(h, Decrypt(notificationEncryptionKey, msg))
           ELSE [h EXCEPT !.pc = "rejected", !.err = "version"]
     IN /\ sessionCalls' = IF fetch THEN sessionCalls + 1 ELSE sessionCalls
        /\ IF fetch \/ wait
             THEN /\ pending' = Append(pending,
                        [h EXCEPT !.pc = IF fetch THEN "awaitSession"
                                                  ELSE "awaitSodium"])
                  /\ done' = <<>>
                  /\ UNCHANGED lastDispatched
             ELSE /\ done' = <<end>>
                  /\ lastDispatched' = LastCalled(<<end>>, lastDispatched)
                  /\ UNCHANGED pending
  /\ alive' \in Survives(Rejected(done'))
  /\ foreignAt' = LastReturned(done', foreignAt)
  /\ UNCHANGED <<suppressBurst, ringListeners, motionListeners,
                 notificationEncryptionKey, running, sodiumReady, firstSession,
                 constructed, bindState, sip, instances, loop, budget>>

\* libsodium.ready resolves: the v1 handlers waiting at line 301 continue, in
\* the order they started waiting.
SodiumReady ==
  /\ alive
  /\ ~sodiumReady
  /\ sodiumReady' = TRUE
  /\ LET waiting == SelectSeq(pending, LAMBDA h : h.pc = "awaitSodium")
         ended == [i \in 1..Len(waiting) |-> FinishV1(waiting[i])]
     IN /\ done' = ended
        /\ lastDispatched' = LastCalled(ended, lastDispatched)
  /\ pending' = SelectSeq(pending, LAMBDA h : h.pc # "awaitSodium")
  /\ closeResult' = ""
  /\ alive' \in Survives(Rejected(done'))
  /\ foreignAt' = LastReturned(done', foreignAt)
  /\ UNCHANGED <<suppressBurst, lastEventTimestamp, ringListeners,
                 motionListeners, notificationEncryptionKey, running, now,
                 received, sessionCalls, firstSession, overlapped, passedAt,
                 constructed, bindState, sip, instances, loop, budget>>

\* The initializeSession call of the i-th suspended handler returns: lines
\* 394-399, 388-389 and 341-369, or the rejection travels up to onMessage.
SessionReturn(i, outcome) ==
  /\ alive
  /\ i \in DOMAIN pending
  /\ pending[i].pc = "awaitSession"
  /\ firstSession' = IF firstSession = "none"
                       THEN (IF outcome \in SessionFailures THEN "error"
                                                            ELSE "ok")
                       ELSE firstSession
  /\ pending' = [j \in 1..(Len(pending) - 1) |->
                   IF j < i THEN pending[j] ELSE pending[j + 1]]
  /\ closeResult' = ""
  /\ LET h == [pending[i] EXCEPT !.fetched = outcome,
                                 !.cached = notificationEncryptionKey]
     IN IF outcome \in SessionFailures
          THEN /\ notificationEncryptionKey' =
                    KeyAfterFailure(notificationEncryptionKey)
               /\ done' = <<[h EXCEPT !.pc = "rejected", !.err = "session"]>>
               /\ UNCHANGED lastDispatched
          ELSE LET key == FetchedKey(notificationEncryptionKey, outcome)
                   end == Finish(h, Decrypt(key, h.msg))
               IN /\ notificationEncryptionKey' = key
                  /\ done' = <<end>>
                  /\ lastDispatched' = LastCalled(<<end>>, lastDispatched)
  /\ alive' \in Survives(Rejected(done'))
  /\ foreignAt' = LastReturned(done', foreignAt)
  /\ UNCHANGED <<suppressBurst, lastEventTimestamp, ringListeners,
                 motionListeners, running, sodiumReady, now, received,
                 sessionCalls, overlapped, passedAt, constructed, bindState,
                 sip, instances, loop, budget>>

\* Lines 407-409.
RegisterRingListener(listener) ==
  /\ alive
  /\ constructed = "returned"
  /\ Len(ringListeners) + Len(motionListeners) < MaxListeners
  /\ ringListeners' = Append(ringListeners, listener)
  /\ done' = <<>>
  /\ closeResult' = ""
  /\ UNCHANGED <<suppressBurst, lastEventTimestamp, motionListeners,
                 notificationEncryptionKey, running, sodiumReady, now, received,
                 pending, sessionCalls, firstSession, overlapped, passedAt,
                 lastDispatched, constructed, bindState, alive, sip,
                 instances, loop,
                 foreignAt, budget>>

\* Lines 416-418.
RegisterMotionListener(listener) ==
  /\ alive
  /\ constructed = "returned"
  /\ Len(ringListeners) + Len(motionListeners) < MaxListeners
  /\ motionListeners' = Append(motionListeners, listener)
  /\ done' = <<>>
  /\ closeResult' = ""
  /\ UNCHANGED <<suppressBurst, lastEventTimestamp, ringListeners,
                 notificationEncryptionKey, running, sodiumReady, now, received,
                 pending, sessionCalls, firstSession, overlapped, passedAt,
                 lastDispatched, constructed, bindState, alive, sip,
                 instances, loop,
                 foreignAt, budget>>

\* Lines 423-427.  this.server is set by the constructor and never cleared,
\* so the guard of line 424 always passes; dgram's Socket.close() throws
\* ERR_SOCKET_DGRAM_NOT_RUNNING on a socket that is already closed.
Close ==
  /\ alive
  /\ constructed = "returned"
  /\ running' = FALSE
  /\ closeResult' = IF running THEN "returned" ELSE "threw"
  /\ done' = <<>>
  /\ UNCHANGED <<suppressBurst, lastEventTimestamp, ringListeners,
                 motionListeners, notificationEncryptionKey, sodiumReady, now,
                 received, pending, sessionCalls, firstSession, overlapped,
                 passedAt, lastDispatched, constructed, bindState, alive, sip,
                 instances, loop,
                 foreignAt, budget>>

Next ==
  \/ \E arg \in SuppressBurstArgs : Construct(arg)
  \/ BindOk
  \/ BindFail
  \/ \E msg \in Datagrams : DeliverForeign(msg)
  \/ \E msg \in Datagrams, t \in ClockReadings : DeliverSuppressed(msg, t)
  \/ \E msg \in Datagrams, t \in ClockReadings \cup {0} : DeliverAccepted(msg, t)
  \/ SodiumReady
  \/ \E i \in 1..MaxMsgs, outcome \in SessionOutcomes : SessionReturn(i, outcome)
  \/ \E listener \in Listeners : RegisterRingListener(listener)
  \/ \E listener \in Listeners : RegisterMotionListener(listener)
  \/ Close

Spec == Init /\ [][Next]_vars

\* A socket constructed with suppressBurst = true, bound, with the listener
\* l1 registered for both kinds of event, on a network that delivers
\* MaxBurstMsgs datagrams.
InitBurst ==
  /\ suppressBurst = SuppressBurstParam("true")
  /\ lastEventTimestamp = 0
  /\ ringListeners = <<"l1">>
  /\ motionListeners = <<"l1">>
  /\ notificationEncryptionKey = NoKey
  /\ running = TRUE
  /\ sodiumReady = FALSE
  /\ now = 0
  /\ received = 0
  /\ pending = <<>>
  /\ done = <<>>
  /\ closeResult = ""
  /\ sessionCalls = 0
  /\ firstSession = "none"
  /\ overlapped = FALSE
  /\ passedAt = 0
  /\ lastDispatched = 0
  /\ constructed = "returned"
  /\ bindState = "bound"
  /\ alive = TRUE
  /\ sip = SipIdle
  /\ instances = [socket \in Devices |-> NoInstanceWork]
  /\ loop = LoopIdle
  /\ foreignAt = 0
  /\ budget = MaxBurstMsgs

\* What happens to that socket once its listeners are registered.
NextBurst ==
  \/ \E msg \in Datagrams : DeliverForeign(msg)
  \/ \E msg \in Datagrams, t \in ClockReadings : DeliverSuppressed(msg, t)
  \/ \E msg \in Datagrams, t \in ClockReadings : DeliverAccepted(msg, t)
  \/ SodiumReady
  \/ \E i \in 1..MaxBurstMsgs, outcome \in SessionOutcomes :
       SessionReturn(i, outcome)
  \/ Close

SpecBurst == InitBurst /\ [][NextBurst]_vars

\* One call of Doorbird.sipSettings on a client of its own; the socket is
\* not involved.
NextSip ==
  \/ \E a \in SipArgs : SipSettings(a)
  \/ SipGet
  \/ SipReturn

SpecSip == Init /\ [][NextSip]_vars

\* Two sockets of one process, each receiving the version 2 datagrams of
\* both devices.
NextInstances ==
  \/ \E socket \in Devices, device \in Devices :
       InstanceOnMessage(socket, device)
  \/ \E socket \in Devices, i \in 1..MaxInstanceMsgs,
        outcome \in SessionOutcomes :
       InstanceSessionReturn(socket, i, outcome)

SpecInstances == Init /\ [][NextInstances]_vars

\* The turns of the event loop of a process whose socket is bound.
NextLoop ==
  \/ \E msg \in LoopDatagrams : LoopArrive(msg)
  \/ LoopOnMessage
  \/ LoopSodiumReady
  \/ LoopPwhashReturn

SpecLoop == Init /\ [][NextLoop]_vars

\* ------------------------------------------------------------ the claims
\* The datagram starts with the bytes DE AD BE.
HasMarker(msg) ==
  /\ Len(msg.head) >= 3
  /\ msg.head[1] = 222
  /\ msg.head[2] = 173
  /\ msg.head[3] = 190

\* The handler got as far as calling the listeners of one kind.
Dispatched(h) == h.pc = "dispatched" \/ (h.pc = "rejected" /\ h.err = "listener")

\* The decrypted payload names the configured device.
FromOwnDevice(h) ==
  /\ Len(h.decrypted) >= 6
  /\ SubSeq(h.decrypted, 1, 6) = <<"f", "o", "o", "b", "a", "r">>

\* The decryption gave a whole payload: 6 bytes of device id, 8 of event tag
\* and 4 of timestamp.
WholePayload(h) == Len(h.decrypted) = 18

\* The 8-byte event tags that read "motion" once surrounding blanks are cut.
MotionTags ==
  { <<"m", "o", "t", "i", "o", "n", " ", " ">>,
    <<" ", "m", "o", "t", "i", "o", "n", " ">>,
    <<" ", " ", "m", "o", "t", "i", "o", "n">> }

\* C1: a datagram whose first 3 bytes are not DE AD BE (shorter datagrams
\* included) ends at the identifier check: no listener is called, nothing is
\* left in flight for it, no session call is made, and the burst timestamp
\* and the key cache are what they were before it arrived.
C1_ForeignDatagramIgnored ==
  /\ \A i \in DOMAIN pending : HasMarker(pending[i].msg)
  /\ \A i \in DOMAIN done :
       ~HasMarker(done[i].msg) =>
         /\ done[i].pc = "dropped"
         /\ done[i].calls = <<>>
         /\ done[i].decrypted = <<>>
         /\ lastEventTimestamp = done[i].pre.last
         /\ notificationEncryptionKey = done[i].pre.key
         /\ sessionCalls = done[i].pre.sessions

\* A 2-byte datagram is dropped by a socket that has already cached a key
\* and dispatched an event.
C1_Witness ==
  /\ done # <<>>
  /\ Len(done[1].msg.head) < 3
  /\ done[1].pc = "dropped"
  /\ notificationEncryptionKey # NoKey
  /\ lastDispatched = 1

\* C2: a datagram, v1 or v2, whose decrypted bytes 0..6 differ from the first
\* 6 characters of the username calls no listener, and its handler returns
\* without an error.
C2_IdentityMismatchDropped ==
  \A i \in DOMAIN done :
    (done[i].decrypted # <<>> /\ ~FromOwnDevice(done[i])) =>
      /\ done[i].pc = "returned"
      /\ done[i].err = ""
      /\ done[i].calls = <<>>

\* A v1 datagram of the device "foobaz" is dropped while listeners of both
\* kinds are registered.
C2_Witness ==
  /\ done # <<>>
  /\ Version(done[1].msg) = 1
  /\ done[1].decrypted # <<>>
  /\ SubSeq(done[1].decrypted, 1, 6) = ForeignId
  /\ done[1].pc = "returned"
  /\ ringListeners # <<>>
  /\ motionListeners # <<>>

\* C3: a datagram that passes the identifier, burst, decryption (to a whole
\* payload) and identity checks gets the listeners of exactly one kind: the
\* motion listeners when its tag trims to "motion", the ring listeners
\* otherwise.
C3_ExactlyOneKind ==
  \A i \in DOMAIN done :
    (WholePayload(done[i]) /\ FromOwnDevice(done[i])) =>
      LET kind == IF SubSeq(done[i].decrypted, 7, 14) \in MotionTags
                    THEN "motion" ELSE "ring"
          ls == IF kind = "motion" THEN motionListeners ELSE ringListeners
      IN /\ Dispatched(done[i])
         /\ done[i].kind = kind
         /\ \A j \in DOMAIN done[i].calls : done[i].calls[j].kind = kind
         /\ ls # <<>> => done[i].calls # <<>>

\* The tag " motion " reaches the motion listener and not the ring listener.
C3_Witness ==
  /\ done # <<>>
  /\ done[1].pc = "dispatched"
  /\ SubSeq(done[1].decrypted, 7, 14) = TagMotionLead
  /\ Len(done[1].calls) = 1
  /\ done[1].calls[1].kind = "motion"
  /\ done[1].calls[1].listener = "l1"
  /\ ringListeners # <<>>

\* The listeners of the calls of a handler, in the order of the calls.
CalledListeners(h) == [j \in DOMAIN h.calls |-> h.calls[j].listener]

\* The listeners registered for the kind of event a handler dispatched.
ListenersOf(h) == IF h.kind = "motion" THEN motionListeners ELSE ringListeners

\* C4: when an authenticated datagram is dispatched, every listener of the
\* matching kind registered at that moment is called exactly once, in the
\* order of registration.
C4_AllListenersInOrder ==
  \A i \in DOMAIN done :
    Dispatched(done[i]) => CalledListeners(done[i]) = ListenersOf(done[i])

\* C5: a listener that throws neither stops the listeners registered after
\* it from being called nor lets the exception out of the datagram handler.
C5_ListenerFailureIsolated ==
  \A i \in DOMAIN done :
    /\ done[i].err # "listener"
    /\ Dispatched(done[i]) =>
         \A j \in DOMAIN ListenersOf(done[i]) :
           (\E k \in 1..(j - 1) : ListenersOf(done[i])[k] \in Throwing) =>
             /\ j <= Len(done[i].calls)
             /\ done[i].calls[j].listener = ListenersOf(done[i])[j]

\* C6: once close() has been called, no listener is called any more, for
\* datagrams whose key fetch or key derivation was in flight included.
C6_NoDispatchAfterClose ==
  ~running => \A i \in DOMAIN done : done[i].calls = <<>>

\* C7: a call of close() on a closed socket returns without an error.
C7_CloseIdempotent == closeResult # "threw"

\* C8: when every datagram is finished before the next one arrives and the
\* first session call succeeds, initializeSession is called once in all: the
\* key is cached, and a later v2 datagram is decrypted with the cached key
\* without a session call of its own.
C8_OneSessionCallInSequence ==
  (~overlapped /\ firstSession = "ok") =>
    /\ sessionCalls = 1
    /\ notificationEncryptionKey \in SessionKeys
    /\ \A i \in DOMAIN done :
         (Version(done[i].msg) = 2 /\ done[i].pre.key # NoKey
            /\ done[i].decrypted # <<>>) =>
           /\ done[i].pre.sessions = 1
           /\ done[i].decrypted =
                (IF done[i].msg.key = notificationEncryptionKey
                   THEN done[i].msg.plain
                   ELSE SubSeq(Garbage, 1, Len(done[i].msg.plain)))

\* The second of two v2 datagrams, handled one after the other, is dispatched
\* from the cache.
C8_Witness ==
  /\ ~overlapped
  /\ firstSession = "ok"
  /\ done # <<>>
  /\ done[1].id = 2
  /\ Version(done[1].msg) = 2
  /\ done[1].pre.key = "K1"
  /\ done[1].pc = "dispatched"
  /\ done[1].calls # <<>>
  /\ lastDispatched = 2
  /\ done[1].before = 1

\* C9: v2 datagrams that arrive while the key cache is empty share one
\* session call: at most one initializeSession call is in flight, and at most
\* one has been made as long as none has failed.
C9_SingleFlightFetch ==
  /\ Len(SelectSeq(pending, LAMBDA h : h.pc = "awaitSession")) <= 1
  /\ firstSession # "error" => sessionCalls <= 1

\* C10: with burst suppression on, a datagram is dropped at the burst check
\* exactly when it arrives less than 1000 ms after the last datagram that
\* passed that check; a dropped one calls no listener, and one that passes
\* and is valid is dispatched.
C10_BurstWindow ==
  suppressBurst =>
    /\ \A i \in DOMAIN pending :
         pending[i].since = 0 \/ pending[i].t - pending[i].since >= 1000
    /\ \A i \in DOMAIN done :
         HasMarker(done[i].msg) =>
           /\ done[i].pc = "suppressed" <=>
                (done[i].since # 0 /\ done[i].t - done[i].since < 1000)
           /\ done[i].pc = "suppressed" =>
                (done[i].calls = <<>> /\ done[i].decrypted = <<>>)
           /\ (done[i].pc # "suppressed" /\ WholePayload(done[i])
                 /\ FromOwnDevice(done[i])) =>
                Dispatched(done[i])

\* A valid datagram 100 ms after a dispatched one is dropped.
C10_Witness ==
  /\ suppressBurst
  /\ done # <<>>
  /\ done[1].id = 2
  /\ done[1].pc = "suppressed"
  /\ done[1].t - done[1].since = 100
  /\ done[1].msg = V1(Plain(OwnId, TagMotionLead))
  /\ lastDispatched = 1
  /\ motionListeners # <<>>

\* Two valid datagrams 1100 ms apart are both dispatched.
C10_WitnessApart ==
  /\ suppressBurst
  /\ done # <<>>
  /\ done[1].id = 2
  /\ done[1].t - done[1].since = 1100
  /\ done[1].pc = "dispatched"
  /\ done[1].calls # <<>>
  /\ done[1].before = 1

\* C11: when the initializeSession call made for a v2 datagram fails, the
\* datagram is dropped without a listener call and the process goes on
\* receiving datagrams.
C11_FailedFetchContained ==
  \A i \in DOMAIN done :
    done[i].err = "session" => (done[i].calls = <<>> /\ alive)

\* The datagram carries DE AD BE but no version byte, or one other than 1, 2.
UnsupportedVersion(msg) ==
  /\ HasMarker(msg)
  /\ Len(msg.head) < 4 \/ msg.head[4] \notin {1, 2}

\* C12: a datagram with the identifier DE AD BE and a version byte outside
\* {1, 2}, or without a version byte, is dropped silently: its handler does
\* not end in a rejected promise, calls no listener and makes no session call.
C12_UnsupportedVersionSilent ==
  \A i \in DOMAIN done :
    UnsupportedVersion(done[i].msg) =>
      /\ done[i].pc # "rejected"
      /\ done[i].err = ""
      /\ done[i].calls = <<>>
      /\ sessionCalls = done[i].pre.sessions

\* C13: when the port cannot be bound, the construction of the socket fails:
\* the caller is never handed a socket whose bind has failed.
C13_BindFailureFailsConstruction ==
  bindState = "failed" => constructed = "threw"

\* The parameters of /bha-api/sip.cgi?action=settings in the order of the
\* argument list of sipSettings.
SipParamOrder ==
  << [name |-> "&enable=", arg |-> "enable"],
     [name |-> "&mic_volume=", arg |-> "mic_volume"],
     [name |-> "&spk_volume=", arg |-> "spk_volume"],
     [name |-> "&dtmf=", arg |-> "dtmf"],
     [name |-> "&relay1_passcode=", arg |-> "relay1_passcode"],
     [name |-> "&incoming_call_enable=", arg |-> "incoming_call_enable"],
     [name |-> "&incoming_call_user=", arg |-> "incoming_call_user"],
     [name |-> "&anc=", arg |-> "anc"],
     [name |-> "&ring_time_limit=", arg |-> "ringTimeLimit"],
     [name |-> "&call_time_limit=", arg |-> "callTimeLimit"] >>

\* The argument is 0, the empty string or undefined.
Falsy(value) ==
  \/ value.type = "undefined"
  \/ value.type = "number" /\ value.num = 0
  \/ value.type = "string" /\ value.chars = <<>>

\* The text of the values sipSettings is called with.
SipText(value) ==
  IF value.type = "string" THEN value.chars
  ELSE IF value.num = 1 THEN <<"1">>
  ELSE IF value.num = 30 THEN <<"3", "0">>
  ELSE IF value.num = 60 THEN <<"6", "0">>
  ELSE IF value.num = 70 THEN <<"7", "0">>
  ELSE IF value.num = 120 THEN <<"1", "2", "0">>
  ELSE <<"9", "8", "1", "2", "7">>

\* The pairs &name=value of the arguments from the i-th on that are not falsy.
RECURSIVE SipQuery(_, _)
SipQuery(a, i) ==
  IF i > Len(SipParamOrder) THEN <<>>
  ELSE (IF Falsy(a[SipParamOrder[i].arg]) THEN <<>>
        ELSE <<SipParamOrder[i].name>> \o SipText(a[SipParamOrder[i].arg]))
       \o SipQuery(a, i + 1)

\* C14: sipSettings requests /bha-api/sip.cgi?action=settings followed by the
\* pairs &name=value, in the fixed order of the parameters, of exactly the
\* arguments that are not 0, "" or undefined; it sends no request before the
\* client is ready and exactly one GET request after.
C14_SipSettingsUrl ==
  /\ sip.pc = "getHttp" => sip.requests = <<>>
  /\ sip.pc \in {"get", "returned"} =>
       sip.requests =
         << [method |-> "GET",
             url |-> <<"http://", "doorbird.local",
                       "/bha-api/sip.cgi?action=settings">>
                     \o SipQuery(sip.args, 1)] >>

\* The call of the repository's test, sipSettings(1, 70, 60, 0, 98127, 0,
\* "user0", 1), has sent its one request: dtmf and incoming_call_enable are
\* left out of the URL.
C14_Witness ==
  /\ sip.pc = "returned"
  /\ sip.args = [enable |-> Num(1), mic_volume |-> Num(70),
                 spk_volume |-> Num(60), dtmf |-> Num(0),
                 relay1_passcode |-> Num(98127),
                 incoming_call_enable |-> Num(0),
                 incoming_call_user |-> Str(<<"u", "s", "e", "r", "0">>),
                 anc |-> Num(1), ringTimeLimit |-> Undefined,
                 callTimeLimit |-> Undefined]
  /\ Len(sip.requests) = 1
  /\ sip.requests[1].url =
       <<"http://", "doorbird.local", "/bha-api/sip.cgi?action=settings",
         "&enable=", "1", "&mic_volume=", "7", "0", "&spk_volume=", "6", "0",
         "&relay1_passcode=", "9", "8", "1", "2", "7",
         "&incoming_call_user=", "u", "s", "e", "r", "0", "&anc=", "1">>

\* C15: with burst suppression on, a datagram dropped by the burst check
\* leaves the burst timestamp as it was, and a datagram that arrives 1000 ms
\* or more after the last one that passed the check is not dropped by it,
\* whatever was dropped in between.
C15_DroppedLeavesWindow ==
  suppressBurst =>
    \A i \in DOMAIN done :
      /\ done[i].pc = "suppressed" =>
           (lastEventTimestamp = done[i].pre.last /\ passedAt = done[i].since)
      /\ (HasMarker(done[i].msg) /\ done[i].t - done[i].since >= 1000) =>
           done[i].pc # "suppressed"

\* A datagram passed at 5000, one was dropped at 5100, and the third, at
\* 6100, is dispatched: 1100 ms after the first and 1000 ms after the second.
C15_Witness ==
  /\ suppressBurst
  /\ done # <<>>
  /\ done[1].id = 3
  /\ done[1].since = 5000
  /\ done[1].pre.last = 5000
  /\ done[1].pre.now = 5100
  /\ done[1].t = 6100
  /\ done[1].pc = "dispatched"
  /\ done[1].calls # <<>>

\* C16: with burst suppression on, a datagram that passes the burst check
\* moves the burst timestamp to its arrival time even when the device check
\* turns it away afterwards, so a datagram that arrives less than 1000 ms
\* after it is dropped by the burst check and calls no listener.
C16_ForeignDatagramMovesWindow ==
  suppressBurst =>
    /\ lastEventTimestamp = passedAt
    /\ lastEventTimestamp >= foreignAt
    /\ \A i \in DOMAIN done :
         /\ done[i].pc = "returned" =>
              (done[i].t > done[i].pre.last /\ lastEventTimestamp >= done[i].t)
         /\ (HasMarker(done[i].msg) /\ done[i].since # 0
               /\ done[i].t - done[i].since < 1000) =>
              (done[i].pc = "suppressed" /\ done[i].calls = <<>>)

\* A datagram of the device "foobaz" passed the burst check at 5000 and was
\* turned away at the device check; a valid datagram of the configured
\* device, 100 ms later, is dropped although a motion listener is registered.
C16_Witness ==
  /\ suppressBurst
  /\ foreignAt = 5000
  /\ done # <<>>
  /\ done[1].since = 5000
  /\ done[1].t = 5100
  /\ done[1].msg = V1(Plain(OwnId, TagMotionLead))
  /\ done[1].pc = "suppressed"
  /\ done[1].before = 0
  /\ motionListeners # <<>>

\* C17: with burst suppression off, which is what a constructor call without
\* the argument gives, no datagram is dropped by the burst check, the burst
\* timestamp keeps its initial value, and every datagram that passes the
\* identifier, decryption and device checks is dispatched.
C17_NoSuppressionByDefault ==
  /\ ~SuppressBurstParam("undefined")
  /\ ~suppressBurst =>
       /\ lastEventTimestamp = 0
       /\ \A i \in DOMAIN done :
            /\ done[i].pc # "suppressed"
            /\ (WholePayload(done[i]) /\ FromOwnDevice(done[i])) =>
                 Dispatched(done[i])

\* With suppression off, the second of two datagrams is dispatched right
\* after the first was.
C17_Witness ==
  /\ constructed = "returned"
  /\ ~suppressBurst
  /\ done # <<>>
  /\ done[1].id = 2
  /\ done[1].before = 1
  /\ done[1].pc = "dispatched"
  /\ done[1].calls # <<>>
  /\ lastEventTimestamp = 0

\* The datagram has the identifier and version 1 or 2 but ends before the
\* last byte its version reads (byte 70 for version 1, byte 46 for version 2).
TooShort(msg) ==
  /\ HasMarker(msg)
  /\ Len(msg.head) >= 4
  /\ \/ msg.head[4] = 1 /\ (msg.salt = "" \/ Len(msg.plain) < 18)
     \/ msg.head[4] = 2 /\ Len(msg.plain) < 18

\* C18: a datagram with the identifier that is shorter than its version
\* requires is dropped: its handler calls no listener and does not end in an
\* exception or a rejected promise.
C18_ShortDatagramDropped ==
  \A i \in DOMAIN done :
    TooShort(done[i].msg) =>
      /\ done[i].pc # "rejected"
      /\ done[i].err = ""
      /\ done[i].calls = <<>>

\* The handler awaited a session call.
AwaitedSession(h) == h.pc = "awaitSession" \/ h.fetched # ""

\* C19: a failed session call leaves the key cache as it was, unset when it
\* was unset; and every v2 datagram that gets past the burst check while the
\* cache is unset makes a session call of its own.
C19_FailedFetchStoresNothing ==
  /\ \A i \in DOMAIN done :
       done[i].err = "session" => notificationEncryptionKey = done[i].cached
  /\ \A i \in DOMAIN done :
       (HasMarker(done[i].msg) /\ Version(done[i].msg) = 2
          /\ done[i].pc # "suppressed" /\ done[i].pre.key = NoKey) =>
         (AwaitedSession(done[i]) /\ done[i].call = done[i].pre.sessions + 1)
  /\ \A i \in DOMAIN pending :
       (Version(pending[i].msg) = 2 /\ pending[i].pre.key = NoKey) =>
         /\ AwaitedSession(pending[i])
         /\ pending[i].call = pending[i].pre.sessions + 1
         /\ sessionCalls >= pending[i].call

\* The first session call has failed, the cache is unset, and the second v2
\* datagram, which arrived after that, waits for the second session call.
C19_Witness ==
  /\ firstSession = "error"
  /\ notificationEncryptionKey = NoKey
  /\ ~overlapped
  /\ sessionCalls = 2
  /\ Len(pending) = 1
  /\ pending[1].id = 2
  /\ pending[1].pc = "awaitSession"
  /\ pending[1].call = 2
  /\ pending[1].pre.key = NoKey

\* C20 as stated: the key cache is unset or holds a key of exactly 32 bytes.
C20_KeyOf32Bytes ==
  notificationEncryptionKey = NoKey \/ KeyLength(notificationEncryptionKey) = 32

\* C20, amended: the key cache is unset or holds the key of a session
\* response, whatever its length; the key a session call returns is stored
\* as it is and the waiting datagram is decrypted with it.
C20_KeyAsReturned ==
  /\ notificationEncryptionKey \in SessionKeys \cup {NoKey}
  /\ \A i \in DOMAIN done :
       done[i].fetched \in SessionKeys =>
         /\ notificationEncryptionKey = done[i].fetched
         /\ done[i].decrypted =
              (IF done[i].msg.key = done[i].fetched
                 THEN done[i].msg.plain
                 ELSE SubSeq(Garbage, 1, Len(done[i].msg.plain)))

\* A session call returned a key of 59 bytes: it is in the cache and the
\* datagram that waited for it was decrypted with it and dispatched.
C20_Witness ==
  /\ KeyLength(notificationEncryptionKey) = 59
  /\ done # <<>>
  /\ done[1].fetched = notificationEncryptionKey
  /\ done[1].cached = NoKey
  /\ done[1].decrypted = done[1].msg.plain
  /\ done[1].pc = "dispatched"
  /\ done[1].calls # <<>>

\* C21: once the key cache holds a key, a session call that returns later
\* leaves that key in place.
C21_KeyNeverChanges ==
  \A i \in DOMAIN done :
    (done[i].fetched # "" /\ done[i].cached # NoKey) =>
      notificationEncryptionKey = done[i].cached

\* The payload's bytes 14..18 as the number of seconds they stand for.
EpochSeconds(bytes) ==
  IF bytes = <<95, 238, 102, 0>> THEN 1609459200
  ELSE IF bytes = <<128, 0, 0, 1>> THEN 0 - 2147483647
  ELSE 0

\* C24: the timestamp of every event handed to a listener is 1970-01-01
\* 00:00:00 UTC plus the payload's bytes 14..18 read as a signed big-endian
\* number of seconds, before 1970 when the high bit is set, with no
\* milliseconds and no offset added.
C24_TimestampSignedBigEndian ==
  \A i \in DOMAIN done :
    \A j \in DOMAIN done[i].calls :
      LET bytes == SubSeq(done[i].decrypted, 15, 18)
          date == done[i].calls[j].arg.timestamp
      IN /\ bytes \in {<<95, 238, 102, 0>>, <<128, 0, 0, 1>>}
         /\ date.sec = EpochSeconds(bytes)
         /\ date.ms = 0
         /\ bytes[1] >= 128 => date.sec < 0

\* A listener was handed an event whose timestamp bytes are 80 00 00 01: the
\* date lies 2147483647 seconds before 1970.
C24_Witness ==
  /\ done # <<>>
  /\ done[1].pc = "dispatched"
  /\ done[1].calls # <<>>
  /\ SubSeq(done[1].decrypted, 15, 18) = Before1970
  /\ done[1].calls[1].arg.timestamp.sec < 0

\* The event name is the tag without the blanks around it.
TagTrimmed(tag, name) ==
  /\ name # <<>> => (name[1] # " " /\ name[Len(name)] # " ")
  /\ \E a \in 0..8 :
       /\ a + Len(name) <= 8
       /\ \A k \in 1..a : tag[k] = " "
       /\ \A k \in 1..Len(name) : tag[a + k] = name[k]
       /\ \A k \in (a + Len(name) + 1)..8 : tag[k] = " "

\* C25: every event handed to a listener carries the 6 characters of the
\* device id, equal to the first 6 characters of the username; a ring event
\* carries the tag without the blanks around it and a motion event has no
\* event field.
C25_EventRecord ==
  \A i \in DOMAIN done :
    \A j \in DOMAIN done[i].calls :
      LET call == done[i].calls[j]
      IN /\ call.arg.intercomId = <<"f", "o", "o", "b", "a", "r">>
         /\ call.arg.intercomId = SubSeq(done[i].decrypted, 1, 6)
         /\ call.kind = "ring" =>
              /\ DOMAIN call.arg = {"intercomId", "event", "timestamp"}
              /\ TagTrimmed(SubSeq(done[i].decrypted, 7, 14), call.arg.event)
         /\ call.kind = "motion" =>
              DOMAIN call.arg = {"intercomId", "timestamp"}

\* A ring listener was handed the event "Motion" of the 8-byte tag
\* "Motion  ".
C25_Witness ==
  /\ done # <<>>
  /\ done[1].calls # <<>>
  /\ done[1].calls[1].kind = "ring"
  /\ SubSeq(done[1].decrypted, 7, 14) = TagMotionUpper
  /\ done[1].calls[1].arg.event = <<"M", "o", "t", "i", "o", "n">>
  /\ done[1].calls[1].arg.intercomId = OwnId

\* C26: with burst suppression on, a datagram with an unsupported version
\* byte leaves the burst timestamp as it was.
C26_UnsupportedVersionLeavesWindow ==
  suppressBurst =>
    \A i \in DOMAIN done :
      UnsupportedVersion(done[i].msg) =>
        lastEventTimestamp = done[i].pre.last

\* The handlers, suspended or just finished, of the datagrams that got past
\* the burst check.
PassedBurst ==
  { h \in {pending[i] : i \in DOMAIN pending} \cup {done[i] : i \in DOMAIN done} :
      HasMarker(h.msg) /\ h.pc # "suppressed" }

\* C27: with burst suppression on, whatever handlers overlap, no two
\* datagrams that arrive less than 1000 ms apart both get past the burst
\* check.
C27_BurstCheckAtomic ==
  suppressBurst =>
    /\ \A g \in PassedBurst, h \in PassedBurst :
         g.id < h.id => h.t - g.t >= 1000
    /\ \A h \in PassedBurst : h.since = 0 \/ h.t - h.since >= 1000

\* Two handlers are suspended, of datagrams that passed at 5000 and at 6100,
\* and a datagram that arrived at 6100 during both has been dropped.
C27_Witness ==
  /\ suppressBurst
  /\ Len(pending) = 2
  /\ pending[1].t = 5000
  /\ pending[2].t = 6100
  /\ done # <<>>
  /\ done[1].id = 3
  /\ done[1].t = 6100
  /\ done[1].pc = "suppressed"

\* C28: listeners are called in the order the datagrams arrived: when the
\* listeners of a datagram are called, no datagram that arrived after it has
\* had its listeners called.
C28_DispatchInArrivalOrder ==
  /\ \A i \in DOMAIN done :
       done[i].calls # <<>> => done[i].after < done[i].id
  /\ \A i \in DOMAIN done, j \in DOMAIN done :
       i < j => done[i].id < done[j].id

\* C29: the listeners called for a datagram are the listeners of its kind
\* registered when it is dispatched, those registered after it was received
\* included.
C29_ListenersAtDispatch ==
  \A i \in DOMAIN done :
    Dispatched(done[i]) =>
      {done[i].calls[j].listener : j \in DOMAIN done[i].calls} =
        {ListenersOf(done[i])[k] : k \in DOMAIN ListenersOf(done[i])}

\* C30: a step makes a session call only by starting the handler of a
\* version 2 datagram that has the identifier, is not dropped by the burst
\* check and finds the key cache empty; it makes one call.
C30_SessionCallOnlyForV2 ==
  [][sessionCalls' # sessionCalls =>
       /\ sessionCalls' = sessionCalls + 1
       /\ received' = received + 1
       /\ notificationEncryptionKey = NoKey
       /\ Len(pending') = Len(pending) + 1
       /\ LET h == pending'[Len(pending')]
          IN /\ h.id = received'
             /\ h.pc = "awaitSession"
             /\ HasMarker(h.msg)
             /\ Len(h.msg.head) >= 4
             /\ h.msg.head[4] = 2
             /\ suppressBurst => h.t - lastEventTimestamp >= 1000
       /\ UNCHANGED <<ringListeners, motionListeners, running>>]_vars

\* The first datagram, of version 1, was handled without a session call; the
\* second, of version 2, found the cache empty and waits for the first call.
C30_Witness ==
  /\ sodiumReady
  /\ received = 2
  /\ sessionCalls = 1
  /\ Len(pending) = 1
  /\ pending[1].id = 2
  /\ pending[1].pre.sessions = 0
  /\ pending[1].call = 1
  /\ Version(pending[1].msg) = 2
  /\ lastDispatched = 1

\* C22: a socket's key cache holds nothing or the key of its own client's
\* device, whatever the other socket of the process has fetched; a socket
\* gets a key only through a session call of its own, decrypts with its own
\* device's key only, and so turns its own device's datagram into the
\* payload the device sent.
C22_KeyCachePerSocket ==
  \A socket \in Devices :
    LET this == instances[socket]
    IN /\ this.notificationEncryptionKey \in {NoKey, ClientKey(socket)}
       /\ this.notificationEncryptionKey # NoKey => this.sessions > 0
       /\ this.decryptedWith \in {"none", ClientKey(socket)}
       /\ this.from = socket => this.decrypted = Plain(OwnId, TagDoorbell)

\* Each socket has fetched the key of its own device with one session call
\* and has decrypted a second datagram of its device with the cached key.
C22_Witness ==
  /\ alive
  /\ \A socket \in Devices :
       /\ instances[socket].received = 2
       /\ instances[socket].sessions = 1
       /\ instances[socket].awaiting = <<>>
       /\ instances[socket].notificationEncryptionKey = ClientKey(socket)
       /\ instances[socket].decryptedWith = ClientKey(socket)
       /\ instances[socket].from = socket
  /\ instances["A"].notificationEncryptionKey #
       instances["B"].notificationEncryptionKey

\* C23: while the key derivation of a version 1 datagram is running and
\* another datagram is in the receive buffer, the socket can start that
\* datagram's handler.
C23_IntakeDuringDerivation ==
  (loop.stack = "pwhash" /\ loop.queue # <<>>) => ENABLED LoopOnMessage

====
